---- MODULE Spec2Model ----
(***************************************************************************)
(* Model of app_product/models.py: the Category -> Brand -> Product ->     *)
(* Review records, the names and labels of Category and Brand, the rating  *)
(* normalisation of Review.clean / Review.save, the creation timestamp of  *)
(* Review and the review aggregation of Product.                           *)
(*                                                                         *)
(* The persistent store is the set of rows of the four tables.  A Review   *)
(* additionally exists as an in-memory instance (a Python object) whose    *)
(* fields the caller assigns and whose clean()/full_clean()/save()/        *)
(* delete() methods the caller invokes; slot i of inst is the instance and *)
(* review[i] the row that instance wrote, if any.  Titles, descriptions    *)
(* and images are held valid (non-blank, within length) throughout and are *)
(* not represented.                                                        *)
(***************************************************************************)
EXTENDS Integers, FiniteSets, Sequences, TLC

\* ---------------------------------------------------------------- bounds
MaxCategories == 2
MaxBrands == 2
MaxProducts == 2
NumReviews == 2
MaxNegative == 1
MaxRate == 6
\* Rows of each named model (Category, Brand) where the labels are in play.
MaxNamed == 1
\* Rows of each catalog table (Category, Brand, Product) where the four
\* tables are in play together.
MaxChain == 1
\* Days that pass after the first one.
MaxDay == 2
RateSpan == 1

\* ------------------------------------------------------------- constants
None == 0 - 99

\* A table, and the collection of instances, is a function from the ids (or
\* slots) present to their records.
Put(f, k, v) == [x \in DOMAIN f \cup {k} |-> IF x = k THEN v ELSE f[x]]
Drop(f, K) == [x \in DOMAIN f \ K |-> f[x]]
Empty == [x \in {} |-> 0]

CategoryIds == 1..MaxCategories
BrandIds == 1..MaxBrands
ProductIds == 1..MaxProducts
Slots == 1..NumReviews

\* The codes of Category.name and Brand.name are strings, written as tuples
\* of characters; each code of a model is paired with its label.
PHONES == <<"p", "h">>
GAMING == <<"g", "a">>
COMPUTING == <<"c", "o">>
CATEGORIES ==
    << <<PHONES, "Phones">>, <<GAMING, "Gaming">>,
       <<COMPUTING, "Computing">> >>

SAMSUNG == <<"s", "a">>
OPPO == <<"o", "p">>
KONAMI == <<"k", "o">>
SONY == <<"s", "o">>
DELL == <<"d", "e">>
HP == <<"h", "p">>
BRANDS ==
    << <<SAMSUNG, "SAMSUNG">>, <<OPPO, "OPPO">>, <<KONAMI, "KONAMI">>,
       <<SONY, "SONY">>, <<DELL, "DELL">>, <<HP, "HP">> >>

\* The codes a caller assigns to a name: the codes of both models, a
\* two-letter code of neither ('xz'), the empty string and 'test'.
Codes ==
    {PHONES, GAMING, COMPUTING, SAMSUNG, OPPO, KONAMI, SONY, DELL, HP,
     <<"x", "z">>, <<>>, <<"t", "e", "s", "t">>}
\* The codes saved as the name of a category and of a brand where the labels
\* are in play: the codes of the model, one of the other model, 'xz', 'test'.
CategoryCodes ==
    {PHONES, GAMING, COMPUTING, HP, <<"x", "z">>, <<"t", "e", "s", "t">>}
BrandCodes ==
    {SAMSUNG, OPPO, KONAMI, SONY, DELL, HP, PHONES, <<"x", "z">>,
     <<"t", "e", "s", "t">>}

\* Values a caller may assign to Review.rate.
Rates == {None} \cup ((0 - MaxNegative)..MaxRate)
\* The ratings assigned where several reviews are in play: none, zero and
\* the highest ones.
StoreRates == {None, 0} \cup ((MaxRate - RateSpan)..MaxRate)

VARIABLES
    category,   \* the Category rows: id -> [name]
    brand,      \* the Brand rows: id -> [category, name]
    product,    \* the Product rows: id -> [brand]
    review,     \* the Review rows: slot -> [product, rate, timestamp]
    seq,        \* autoincrement counters of the three catalog tables
    inst,       \* the in-memory Review instances: slot -> fields
    today,      \* the date of the clock, a number of days
    last        \* the last call: the method, the exception it raised,
                \* the numbers of rows it deleted and of references it
                \* set to null, and for a name method the name it was
                \* called with and the string it returned

vars == <<category, brand, product, review, seq, inst, today, last>>

Outcome(op, err) ==
    [op |-> op, err |-> err, deleted |-> 0, nulled |-> 0,
     arg |-> <<>>, ret |-> ""]
Deleted(op, d, n) ==
    [op |-> op, err |-> "none", deleted |-> d, nulled |-> n,
     arg |-> <<>>, ret |-> ""]
Named(op, err, name, str) ==
    [op |-> op, err |-> err, deleted |-> 0, nulled |-> 0,
     arg |-> name, ret |-> str]

\* ------------------------------------------------------------------ Init
Init ==
    /\ category = Empty
    /\ brand = Empty
    /\ product = Empty
    /\ review = Empty
    /\ seq = [Category |-> 0, Brand |-> 0, Product |-> 0]
    /\ inst = Empty
    /\ today = 0
    /\ last = Outcome("init", "none")

\* ------------------------------------------- persistence of a Review row
\* The constraints the store enforces on a row of the Review table: rate is
\* a non-null PositiveSmallIntegerField (NOT NULL, CHECK rate >= 0) and
\* product is a nullable foreign key to an existing Product row.
DbAccepts_ProductRequired(o) ==
    /\ o.rate # None
    /\ o.rate >= 0
    /\ o.product \in DOMAIN product

DbAccepts(o) ==
    /\ o.rate # None
    /\ o.rate >= 0
    /\ (o.product = None \/ o.product \in DOMAIN product)

\* models.Model.save() of the Review instance o of slot i, rows being the
\* Review table before the call: INSERT when the instance has no pk,
\* otherwise UPDATE and, when no row matched, INSERT.  A row the store
\* rejects raises IntegrityError and writes nothing.  timestamp is
\* auto_now_add: DateField.pre_save() sets it on the instance to the date of
\* the day when the statement is an INSERT, before the statement runs, and
\* an UPDATE writes the value the instance holds.
ModelSave_AutoNow(o, i, rows) ==
    LET w == [o EXCEPT !.timestamp = today] IN
    IF DbAccepts(o)
    THEN [obj |-> [w EXCEPT !.pk = TRUE],
          rows |-> Put(rows, i, [product |-> o.product, rate |-> o.rate,
                                 timestamp |-> today]),
          err |-> "none"]
    ELSE [obj |-> w, rows |-> rows, err |-> "IntegrityError"]

ModelSave(o, i, rows) ==
    LET add == ~(o.pk /\ i \in DOMAIN rows)
        w == IF add THEN [o EXCEPT !.timestamp = today] ELSE o
    IN
    IF DbAccepts(o)
    THEN [obj |-> [w EXCEPT !.pk = TRUE],
          rows |-> Put(rows, i, [product |-> o.product, rate |-> o.rate,
                                 timestamp |-> w.timestamp]),
          err |-> "none"]
    ELSE [obj |-> w, rows |-> rows, err |-> "IntegrityError"]

\* Model.clean_fields() of a Review: the field validators that full_clean()
\* runs before clean().  product is blank=False and must name an existing
\* row; rate is null=False with MinValueValidator(0).
CleanFieldsFails(o) ==
    \/ o.product = None
    \/ o.product \notin DOMAIN product
    \/ o.rate = None
    \/ o.rate < 0

\* ------------------------------------------------------- Review.clean()
Review_clean_BranchesSwapped(o, i, rows) ==
    LET c == [o EXCEPT !.is_cleaned = TRUE] IN
    IF c.rate = None \/ c.rate < 1
    THEN [obj |-> [c EXCEPT !.rate = 5], rows |-> rows, err |-> "none"]
    ELSE IF c.rate > 5
    THEN [obj |-> [c EXCEPT !.rate = 1], rows |-> rows, err |-> "none"]
    ELSE ModelSave(c, i, rows)

Review_clean_NeverSaves(o, i, rows) ==
    LET c == [o EXCEPT !.is_cleaned = TRUE] IN
    IF c.rate = None \/ c.rate < 1
    THEN [obj |-> [c EXCEPT !.rate = 1], rows |-> rows, err |-> "none"]
    ELSE IF c.rate > 5
    THEN [obj |-> [c EXCEPT !.rate = 5], rows |-> rows, err |-> "none"]
    ELSE [obj |-> c, rows |-> rows, err |-> "none"]

Review_clean(o, i, rows) ==
    LET c == [o EXCEPT !.is_cleaned = TRUE] IN
    IF c.rate = None \/ c.rate < 1
    THEN [obj |-> [c EXCEPT !.rate = 1], rows |-> rows, err |-> "none"]
    ELSE IF c.rate > 5
    THEN [obj |-> [c EXCEPT !.rate = 5], rows |-> rows, err |-> "none"]
    ELSE ModelSave(c, i, rows)

Review_full_clean_ThenSaves(o, i, rows) ==
    LET c == Review_clean(o, i, rows) IN
    IF c.err # "none" THEN c
    ELSE IF CleanFieldsFails(o) THEN [c EXCEPT !.err = "ValidationError"]
    ELSE ModelSave(c.obj, i, c.rows)

\* Model.full_clean(): clean_fields() collects the field errors, clean()
\* runs even when a field failed, and the collected errors are raised as
\* one ValidationError at the end.  An exception of clean() that is not a
\* ValidationError propagates at once.
Review_full_clean(o, i, rows) ==
    LET c == Review_clean(o, i, rows) IN
    IF c.err # "none" THEN c
    ELSE IF CleanFieldsFails(o) THEN [c EXCEPT !.err = "ValidationError"]
    ELSE c

\* -------------------------------------------------------- Review.save()
Review_save_AlwaysPersist(o, i, rows) ==
    ModelSave(o, i, rows)

Review_save_IgnoresFlag(o, i, rows) ==
    IF o.rate = None
    THEN [obj |-> o, rows |-> rows, err |-> "TypeError"]
    ELSE IF o.rate < 1 \/ o.rate > 5
    THEN Review_full_clean(o, i, rows)
    ELSE ModelSave(o, i, rows)

Review_save(o, i, rows) ==
    IF o.is_cleaned = FALSE /\ o.rate = None
    THEN \* None < 1 is evaluated and raises TypeError
         [obj |-> o, rows |-> rows, err |-> "TypeError"]
    ELSE IF o.is_cleaned = FALSE /\ (o.rate < 1 \/ o.rate > 5)
    THEN Review_full_clean(o, i, rows)
    ELSE ModelSave(o, i, rows)

\* ------------------------------------------- actions on Review instances
\* Apply the result of a method of instance i to the state.
Apply(i, op, res) ==
    /\ inst' = Put(inst, i, res.obj)
    /\ review' = res.rows
    /\ last' = Outcome(op, res.err)
    /\ UNCHANGED <<today, category, brand, product, seq>>

\* Review(product=p, rate=v): a fresh instance, is_cleaned is the class
\* attribute False.
NewReview(i, p, v) ==
    /\ i \notin DOMAIN inst
    /\ inst' = Put(inst, i, [pk |-> FALSE, product |-> p, rate |-> v,
                             timestamp |-> None, is_cleaned |-> FALSE])
    /\ last' = Outcome("Review()", "none")
    /\ UNCHANGED <<today, category, brand, product, review, seq>>

\* review.rate = v
SetRate(i, v) ==
    /\ i \in DOMAIN inst
    /\ inst' = [inst EXCEPT ![i].rate = v]
    /\ last' = Outcome("assign", "none")
    /\ UNCHANGED <<today, category, brand, product, review, seq>>

\* review.product = p
SetProduct(i, p) ==
    /\ i \in DOMAIN inst
    /\ inst' = [inst EXCEPT ![i].product = p]
    /\ last' = Outcome("assign", "none")
    /\ UNCHANGED <<today, category, brand, product, review, seq>>

\* review.is_cleaned = b
SetIsCleaned(i, b) ==
    /\ i \in DOMAIN inst
    /\ inst' = [inst EXCEPT ![i].is_cleaned = b]
    /\ last' = Outcome("assign", "none")
    /\ UNCHANGED <<today, category, brand, product, review, seq>>

Clean(i) ==
    /\ i \in DOMAIN inst
    /\ Apply(i, "Review.clean", Review_clean(inst[i], i, review))

FullClean(i) ==
    /\ i \in DOMAIN inst
    /\ Apply(i, "Review.full_clean", Review_full_clean(inst[i], i, review))

Save(i) ==
    /\ i \in DOMAIN inst
    /\ Apply(i, "Review.save", Review_save(inst[i], i, review))

\* review.delete(): refuses an instance without pk, otherwise deletes the
\* row (if it is still there) and clears the pk of the instance.
DeleteReview(i) ==
    /\ i \in DOMAIN inst
    /\ IF inst[i].pk
       THEN /\ inst' = [inst EXCEPT ![i].pk = FALSE]
            /\ review' = Drop(review, {i})
            /\ last' = Deleted("Review.delete",
                               Cardinality(DOMAIN review \cap {i}), 0)
       ELSE /\ last' = Outcome("Review.delete", "ValueError")
            /\ UNCHANGED <<inst, review>>
    /\ UNCHANGED <<today, category, brand, product, seq>>


\* ------------------------------------------------ on_delete of the keys
\* Brand.category: on_delete=SET_NULL.  The Brand table after Category c
\* is deleted.
Brand_category_DeletesChild(c) ==
    Drop(brand, {b \in DOMAIN brand : brand[b].category = c})

Brand_category_on_delete(c) ==
    [b \in DOMAIN brand |->
        IF brand[b].category = c
        THEN [brand[b] EXCEPT !.category = None] ELSE brand[b]]

\* Product.brand: on_delete=SET_NULL.  The Product table after Brand b is
\* deleted.
Product_brand_KeepsReference(b) ==
    product

Product_brand_on_delete(b) ==
    [p \in DOMAIN product |->
        IF product[p].brand = b
        THEN [product[p] EXCEPT !.brand = None] ELSE product[p]]

\* Review.product: on_delete=CASCADE.  The Review table after Product p is
\* deleted.
Review_product_KeepsChildren(p) ==
    review

Review_product_on_delete(p) ==
    Drop(review, {i \in DOMAIN review : review[i].product = p})

\* ------------------------------------------------------ Label Resolver
\* The loop of __str__ over enumerate(choices) from position k on: the
\* label of the first pair whose code is name, 'Unknown' when none is.
RECURSIVE LabelFrom(_, _, _)
LabelFrom(choices, name, k) ==
    IF k > Len(choices) THEN "Unknown"
    ELSE IF name = choices[k][1] THEN choices[k][2]
    ELSE LabelFrom(choices, name, k + 1)

Category_str_FirstLabel(name) ==
    CATEGORIES[1][2]

Category_str(name) ==
    LabelFrom(CATEGORIES, name, 1)

Brand_str(name) ==
    LabelFrom(BRANDS, name, 1)

\* ---------------------------------------------- validation of the names
\* name = models.CharField(max_length=2, choices=...): what clean_fields()
\* rejects (blank, longer than max_length, not a code of choices) and what
\* the varchar(2) column rejects on save (DataError).
ChoiceCodes(choices) ==
    {choices[k][1] : k \in 1..Len(choices)}

NameFieldFails_ChoicesIgnored(choices, name) ==
    name = <<>> \/ Len(name) > 2

NameFieldFails(choices, name) ==
    name = <<>> \/ Len(name) > 2 \/ name \notin ChoiceCodes(choices)

NameColumnFails(name) ==
    Len(name) > 2

\* ------------------------------------------------ actions on the catalog
\* Category(name=n).save() of a new instance: the next id of the sequence.
CreateCategory(n) ==
    /\ seq.Category < MaxCategories
    /\ IF NameColumnFails(n)
       THEN /\ last' = Named("Category.save", "DataError", n, "")
            /\ UNCHANGED <<category, seq>>
       ELSE /\ seq' = [seq EXCEPT !.Category = @ + 1]
            /\ category' = Put(category, seq.Category + 1, [name |-> n])
            /\ last' = Named("Category.save", "none", n, "")
    /\ UNCHANGED <<today, brand, product, review, inst>>

\* category.name = n; category.save() on the instance of an existing row.
UpdateCategory(c, n) ==
    /\ c \in DOMAIN category
    /\ IF NameColumnFails(n)
       THEN /\ last' = Named("Category.save", "DataError", n, "")
            /\ UNCHANGED category
       ELSE /\ category' = [category EXCEPT ![c].name = n]
            /\ last' = Named("Category.save", "none", n, "")
    /\ UNCHANGED <<today, brand, product, review, seq, inst>>

\* Category(name=n).full_clean(): the field validators only, nothing is
\* written.
FullCleanCategory(n) ==
    /\ last' = Named("Category.full_clean",
                     IF NameFieldFails(CATEGORIES, n)
                     THEN "ValidationError" ELSE "none", n, "")
    /\ UNCHANGED <<today, category, brand, product, review, seq, inst>>

\* str(category) of the instance of the stored row c.
StrCategory(c) ==
    /\ c \in DOMAIN category
    /\ last' = Named("Category.__str__", "none", category[c].name,
                     Category_str(category[c].name))
    /\ UNCHANGED <<today, category, brand, product, review, seq, inst>>

DeleteCategory(c) ==
    /\ c \in DOMAIN category
    /\ category' = Drop(category, {c})
    /\ brand' = Brand_category_on_delete(c)
    /\ last' = Deleted("Category.delete", 1,
                       Cardinality({b \in DOMAIN brand :
                                       brand[b].category = c}))
    /\ UNCHANGED <<today, product, review, seq, inst>>

\* Brand(category=c, name=n).save() of a new instance; a category id
\* without a row is rejected by the store.
CreateBrand(c, n) ==
    /\ seq.Brand < MaxBrands
    /\ IF NameColumnFails(n)
       THEN /\ last' = Named("Brand.save", "DataError", n, "")
            /\ UNCHANGED <<brand, seq>>
       ELSE IF c = None \/ c \in DOMAIN category
       THEN /\ seq' = [seq EXCEPT !.Brand = @ + 1]
            /\ brand' = Put(brand, seq.Brand + 1,
                            [category |-> c, name |-> n])
            /\ last' = Named("Brand.save", "none", n, "")
       ELSE /\ last' = Named("Brand.save", "IntegrityError", n, "")
            /\ UNCHANGED <<brand, seq>>
    /\ UNCHANGED <<today, category, product, review, inst>>

\* brand.category = c; brand.name = n; brand.save() on the instance of an
\* existing row.
UpdateBrand(b, c, n) ==
    /\ b \in DOMAIN brand
    /\ IF NameColumnFails(n)
       THEN /\ last' = Named("Brand.save", "DataError", n, "")
            /\ UNCHANGED brand
       ELSE IF c = None \/ c \in DOMAIN category
       THEN /\ brand' = [brand EXCEPT ![b] = [category |-> c, name |-> n]]
            /\ last' = Named("Brand.save", "none", n, "")
       ELSE /\ last' = Named("Brand.save", "IntegrityError", n, "")
            /\ UNCHANGED brand
    /\ UNCHANGED <<today, category, product, review, seq, inst>>

\* Brand(category=c, name=n).full_clean(): category is blank=False and must
\* name an existing row; nothing is written.
FullCleanBrand(c, n) ==
    /\ last' = Named("Brand.full_clean",
                     IF \/ NameFieldFails(BRANDS, n)
                        \/ c = None
                        \/ c \notin DOMAIN category
                     THEN "ValidationError" ELSE "none", n, "")
    /\ UNCHANGED <<today, category, brand, product, review, seq, inst>>

\* str(brand) of the instance of the stored row b.
StrBrand(b) ==
    /\ b \in DOMAIN brand
    /\ last' = Named("Brand.__str__", "none", brand[b].name,
                     Brand_str(brand[b].name))
    /\ UNCHANGED <<today, category, brand, product, review, seq, inst>>

DeleteBrand(b) ==
    /\ b \in DOMAIN brand
    /\ brand' = Drop(brand, {b})
    /\ product' = Product_brand_on_delete(b)
    /\ last' = Deleted("Brand.delete", 1,
                       Cardinality({p \in DOMAIN product :
                                       product[p].brand = b}))
    /\ UNCHANGED <<today, category, review, seq, inst>>

\* Product(brand=b).save() of a new instance.
CreateProduct(b) ==
    /\ seq.Product < MaxProducts
    /\ IF b = None \/ b \in DOMAIN brand
       THEN /\ seq' = [seq EXCEPT !.Product = @ + 1]
            /\ product' = Put(product, seq.Product + 1, [brand |-> b])
            /\ last' = Outcome("Product.save", "none")
       ELSE /\ last' = Outcome("Product.save", "IntegrityError")
            /\ UNCHANGED <<product, seq>>
    /\ UNCHANGED <<today, category, brand, review, inst>>

\* product.brand = b; product.save() on the instance of an existing row.
UpdateProduct(p, b) ==
    /\ p \in DOMAIN product
    /\ IF b = None \/ b \in DOMAIN brand
       THEN /\ product' = [product EXCEPT ![p].brand = b]
            /\ last' = Outcome("Product.save", "none")
       ELSE /\ last' = Outcome("Product.save", "IntegrityError")
            /\ UNCHANGED product
    /\ UNCHANGED <<today, category, brand, review, seq, inst>>

\* product.delete(): the rows of its reviews go with it; the in-memory
\* Review instances are not touched.
DeleteProduct(p) ==
    /\ p \in DOMAIN product
    /\ product' = Drop(product, {p})
    /\ review' = Review_product_on_delete(p)
    /\ last' = Deleted("Product.delete",
                       1 + Cardinality(DOMAIN review)
                         - Cardinality(DOMAIN Review_product_on_delete(p)),
                       0)
    /\ UNCHANGED <<today, category, brand, seq, inst>>

\* ---------------------------------------------------- Review Aggregator
\* self.review_set: the rows of the Review table whose product is p.
review_set(p) ==
    {i \in DOMAIN review : review[i].product = p}

\* self.review_set.filter(rate__exact=k)
review_set_filter_Gte(p, k) ==
    {i \in review_set(p) : review[i].rate >= k}

review_set_filter(p, k) ==
    {i \in review_set(p) : review[i].rate = k}

get_count_total_reviews_OnlyValid(p) ==
    Cardinality({i \in review_set(p) : review[i].rate \in 1..5})

get_count_total_reviews(p) ==
    Cardinality(review_set(p))

\* ------------------------------------------------- float arithmetic
\* The floats of get_review_percentage are IEEE 754 doubles.  A double other
\* than zero is [m, e] and stands for m * 2^e, 2^52 <= m < 2^53; zero has
\* m = 0.  m and the exact results on the way are natural numbers written
\* in base 1024, the lowest digit first and the highest one not 0 (no digit
\* for 0).  Every operation gives the double nearest to its exact result,
\* the one with an even m when two are as near.
Base == 1024

FloatZero == [m |-> <<>>, e |-> 0]

\* The digits of the natural number v.
RECURSIVE LimbsOf(_)
LimbsOf(v) ==
    IF v = 0 THEN <<>> ELSE <<v % Base>> \o LimbsOf(v \div Base)

\* The number of binary digits of the natural number v, 0 for 0.
RECURSIVE BitLenSmall(_)
BitLenSmall(v) ==
    IF v = 0 THEN 0 ELSE 1 + BitLenSmall(v \div 2)

BitLen(L) ==
    IF L = <<>> THEN 0
    ELSE 10 * (Len(L) - 1) + BitLenSmall(L[Len(L)])

\* L without its highest digits that are 0.
RECURSIVE Trim(_)
Trim(L) ==
    IF L = <<>> \/ L[Len(L)] # 0 THEN L
    ELSE Trim(SubSeq(L, 1, Len(L) - 1))

\* L * c + carry, 0 <= c < 2^20 and 0 <= carry < 2^20.
RECURSIVE MulLimbs(_, _, _)
MulLimbs(L, c, carry) ==
    IF L = <<>> THEN LimbsOf(carry)
    ELSE LET v == L[1] * c + carry
         IN <<v % Base>> \o MulLimbs(Tail(L), c, v \div Base)

\* L * 2^k
ShiftLeft(L, k) ==
    [j \in 1..(k \div 10) |-> 0] \o MulLimbs(L, 2 ^ (k % 10), 0)

\* Quotient and remainder of (r * Base^Len(L) + L) by c, 0 <= r < c < 2^20.
RECURSIVE DivLimbs(_, _, _)
DivLimbs(L, c, r) ==
    IF L = <<>> THEN [q |-> <<>>, rem |-> r]
    ELSE LET v == r * Base + L[Len(L)]
             t == DivLimbs(SubSeq(L, 1, Len(L) - 1), c, v % c)
         IN [q |-> Append(t.q, v \div c), rem |-> t.rem]

\* The double nearest to q * 2^e, or to a little more than that when
\* sticky; q # 0 has at most 73 binary digits, and at least 54 when sticky.
RoundTo53(q, e, sticky) ==
    LET drop == BitLen(q) - 53
        d == DivLimbs(q, 2 ^ drop, 0)
        m0 == Trim(d.q)
        half == 2 ^ (drop - 1)
        up == \/ d.rem > half
              \/ d.rem = half /\ (sticky \/ m0[1] % 2 = 1)
        m1 == IF up THEN MulLimbs(m0, 1, 1) ELSE m0
    IN IF drop <= 0 THEN [m |-> ShiftLeft(q, 0 - drop), e |-> e + drop]
       ELSE IF BitLen(m1) = 54
       THEN [m |-> Trim(DivLimbs(m1, 2, 0).q), e |-> e + drop + 1]
       ELSE [m |-> m1, e |-> e + drop]

\* a / b of two ints (int.__truediv__), 0 <= a < 2^30 and 0 < b < 2^20: the
\* quotient of a * 2^k by b has 55 or 56 binary digits.
int_truediv(a, b) ==
    LET k == 55 + BitLenSmall(b) - BitLenSmall(a)
        d == DivLimbs(ShiftLeft(LimbsOf(a), k), b, 0)
    IN IF a = 0 THEN FloatZero
       ELSE RoundTo53(Trim(d.q), 0 - k, d.rem # 0)

\* x * c for the double x and the int c (float.__mul__), 0 < c < 2^20.
float_mul(x, c) ==
    IF x = FloatZero THEN FloatZero
    ELSE RoundTo53(MulLimbs(x.m, c, 0), x.e, FALSE)

\* x / c for the double x and the int c (float.__truediv__), 0 < c < 2^20:
\* the quotient of x.m * 2^s by c has 54 or 55 binary digits.
float_truediv(x, c) ==
    IF x = FloatZero THEN FloatZero
    ELSE LET s == BitLenSmall(c) + 1
             d == DivLimbs(ShiftLeft(x.m, s), c, 0)
         IN RoundTo53(Trim(d.q), x.e - s, d.rem # 0)

\* round(x, 1) of the double x, 0 <= x < 2^16, in tenths (float.__round__
\* rounds the exact decimal expansion of x): the exact value of 10 * x,
\* which is q / 2^k, rounded to the nearest integer, to the even one when it
\* lies exactly half way.
round_1(x) ==
    IF x = FloatZero THEN 0
    ELSE LET q == MulLimbs(x.m, 10, 0)
             k == 0 - x.e
             limb(i) == IF i <= Len(q) THEN q[i] ELSE 0
             lo == k \div 10
             s == k % 10
             int == limb(lo + 1) \div 2 ^ s
                    + limb(lo + 2) * 2 ^ (10 - s)
                    + limb(lo + 3) * 2 ^ (20 - s)
             below == limb((k - 1) \div 10 + 1)
             half == (below \div 2 ^ ((k - 1) % 10)) % 2 = 1
             rest == \/ below % 2 ^ ((k - 1) % 10) # 0
                     \/ \E i \in 1..((k - 1) \div 10) : limb(i) # 0
         IN IF half /\ (rest \/ int % 2 = 1) THEN int + 1 ELSE int

\* Lines 111-122 of get_review_percentage on the ints different_rate and
\* total_rate, total_rate # 0: the result in tenths of a star.
StarsFloat(different_rate, total_rate) ==
    LET decimal == int_truediv(different_rate, total_rate)
        percentage == float_mul(decimal, 100)
        stars == float_truediv(percentage, 20)
    IN round_1(stars)

\* The body of get_review_percentage over the number of reviews n and the
\* numbers cnt[k] of reviews rated k, k = 1..5.  The result is the int 0 or
\* a float given in tenths of a star.
Stars_WrongWeight(n, cnt) ==
    LET total_rate == n * 5
        different_rate ==
            cnt[1] * 1 + cnt[2] * 2 + cnt[3] * 3 + cnt[4] * 5 + cnt[5] * 5
    IN IF total_rate = 0
       THEN [type |-> "int", tenths |-> 0]
       ELSE [type |-> "float",
             tenths |-> StarsFloat(different_rate, total_rate)]

Stars_NoZeroGuard(n, cnt) ==
    LET total_rate == n * 5
        different_rate ==
            cnt[1] * 1 + cnt[2] * 2 + cnt[3] * 3 + cnt[4] * 4 + cnt[5] * 5
    IN IF total_rate = 0
       THEN [type |-> "ZeroDivisionError", tenths |-> 0]
       ELSE [type |-> "float",
             tenths |-> StarsFloat(different_rate, total_rate)]

Stars(n, cnt) ==
    LET total_rate == n * 5
        different_rate ==
            cnt[1] * 1 + cnt[2] * 2 + cnt[3] * 3 + cnt[4] * 4 + cnt[5] * 5
    IN IF total_rate = 0
       THEN [type |-> "int", tenths |-> 0]
       ELSE [type |-> "float",
             tenths |-> StarsFloat(different_rate, total_rate)]

get_review_percentage(p) ==
    Stars(Cardinality(review_set(p)),
          [k \in 1..5 |-> Cardinality(review_set_filter(p, k))])

\* ------------------------------------- whole calls on the Review table
\* The callers of the test suite work on a Review through a short-lived
\* instance: the three actions below run such a call sequence in one step
\* and drop the instance, so that only the row (if any) remains.

\* mixer.blend('app_product.Review', product=p, rate=v) followed by save():
\* blend constructs the instance and calls save() once, the caller calls
\* save() again.  An exception ends the sequence.
BlendAndSave(i, p, v) ==
    /\ i \notin DOMAIN review
    /\ i \notin DOMAIN inst
    /\ LET o == [pk |-> FALSE, product |-> p, rate |-> v,
                 timestamp |-> None, is_cleaned |-> FALSE]
           first == Review_save(o, i, review)
           res == IF first.err # "none" THEN first
                  ELSE Review_save(first.obj, i, first.rows)
       IN /\ review' = res.rows
          /\ last' = Outcome("Review.save", res.err)
    /\ UNCHANGED <<today, category, brand, product, seq, inst>>

\* The instance of an existing row with is_cleaned set to t, product to p
\* and rate to v, then save().
AssignAndSave(i, p, v, t) ==
    /\ i \in DOMAIN review
    /\ i \notin DOMAIN inst
    /\ LET o == [pk |-> TRUE, product |-> p, rate |-> v,
                 timestamp |-> review[i].timestamp, is_cleaned |-> t]
           res == Review_save(o, i, review)
       IN /\ review' = res.rows
          /\ last' = Outcome("Review.save", res.err)
    /\ UNCHANGED <<today, category, brand, product, seq, inst>>

\* delete() on the instance of an existing row.
DeleteRow(i) ==
    /\ i \in DOMAIN review
    /\ i \notin DOMAIN inst
    /\ review' = Drop(review, {i})
    /\ last' = Deleted("Review.delete", 1, 0)
    /\ UNCHANGED <<today, category, brand, product, seq, inst>>

\* A day passes.
Tick ==
    /\ today < MaxDay
    /\ today' = today + 1
    /\ last' = Outcome("tick", "none")
    /\ UNCHANGED <<category, brand, product, review, seq, inst>>

\* ------------------------------------------------------ specifications
\* The products and their reviews, every Review written by a whole call.
Next ==
    \/ \E b \in BrandIds \cup {None} : CreateProduct(b)
    \/ \E p \in ProductIds : DeleteProduct(p)
    \/ \E i \in Slots, p \in ProductIds \cup {None}, v \in StoreRates :
          BlendAndSave(i, p, v)
    \/ \E i \in Slots, p \in ProductIds \cup {None}, v \in StoreRates,
          t \in BOOLEAN : AssignAndSave(i, p, v, t)
    \/ \E i \in Slots : DeleteRow(i)

Spec == Init /\ [][Next]_vars

\* One review instance, every method and assignment a step of its own, and
\* the products it may reference.
NextReview ==
    \/ \E b \in BrandIds \cup {None} : CreateProduct(b)
    \/ \E p \in ProductIds : DeleteProduct(p)
    \/ \E p \in ProductIds \cup {None}, v \in Rates : NewReview(1, p, v)
    \/ \E v \in Rates : SetRate(1, v)
    \/ \E p \in ProductIds \cup {None} : SetProduct(1, p)
    \/ \E b \in BOOLEAN : SetIsCleaned(1, b)
    \/ Clean(1)
    \/ FullClean(1)
    \/ Save(1)
    \/ DeleteReview(1)

SpecReview == Init /\ [][NextReview]_vars

\* As SpecReview, the flag is_cleaned being set by clean() only.
NextRating ==
    \/ \E b \in BrandIds \cup {None} : CreateProduct(b)
    \/ \E p \in ProductIds : DeleteProduct(p)
    \/ \E p \in ProductIds \cup {None}, v \in Rates : NewReview(1, p, v)
    \/ \E v \in Rates : SetRate(1, v)
    \/ \E p \in ProductIds \cup {None} : SetProduct(1, p)
    \/ Clean(1)
    \/ FullClean(1)
    \/ Save(1)
    \/ DeleteReview(1)

SpecRating == Init /\ [][NextRating]_vars

\* The catalog: categories, brands and products.
NextCatalog ==
    \/ CreateCategory(PHONES)
    \/ \E c \in CategoryIds : DeleteCategory(c)
    \/ \E c \in CategoryIds \cup {None} : CreateBrand(c, SAMSUNG)
    \/ \E b \in BrandIds, c \in CategoryIds \cup {None} :
          UpdateBrand(b, c, SAMSUNG)
    \/ \E b \in BrandIds : DeleteBrand(b)
    \/ \E b \in BrandIds \cup {None} : CreateProduct(b)
    \/ \E p \in ProductIds, b \in BrandIds \cup {None} : UpdateProduct(p, b)
    \/ \E p \in ProductIds : DeleteProduct(p)

SpecCatalog == Init /\ [][NextCatalog]_vars

\* The names: categories and brands saved, validated and printed under
\* every code.
NextLabel ==
    \/ \E n \in CategoryCodes :
          seq.Category < MaxNamed /\ CreateCategory(n)
    \/ \E c \in CategoryIds, n \in CategoryCodes : UpdateCategory(c, n)
    \/ \E n \in Codes : FullCleanCategory(n)
    \/ \E c \in CategoryIds : StrCategory(c)
    \/ \E n \in BrandCodes :
          seq.Brand < MaxNamed /\ CreateBrand(None, n)
    \/ \E b \in BrandIds, n \in BrandCodes : UpdateBrand(b, None, n)
    \/ \E c \in CategoryIds \cup {None}, n \in Codes : FullCleanBrand(c, n)
    \/ \E b \in BrandIds : StrBrand(b)

SpecLabel == Init /\ [][NextLabel]_vars

\* The four tables together: categories, brands, products and the reviews
\* written by whole calls.
NextAll ==
    \/ seq.Category < MaxChain /\ CreateCategory(PHONES)
    \/ \E c \in CategoryIds : DeleteCategory(c)
    \/ \E c \in CategoryIds \cup {None} :
          seq.Brand < MaxChain /\ CreateBrand(c, SAMSUNG)
    \/ \E b \in BrandIds, c \in CategoryIds \cup {None} :
          UpdateBrand(b, c, SAMSUNG)
    \/ \E b \in BrandIds : DeleteBrand(b)
    \/ \E b \in BrandIds \cup {None} :
          seq.Product < MaxChain /\ CreateProduct(b)
    \/ \E p \in ProductIds, b \in BrandIds \cup {None} : UpdateProduct(p, b)
    \/ \E p \in ProductIds : DeleteProduct(p)
    \/ \E i \in Slots, p \in ProductIds \cup {None} : BlendAndSave(i, p, 5)
    \/ \E i \in Slots, p \in ProductIds \cup {None}, t \in BOOLEAN :
          AssignAndSave(i, p, 5, t)
    \/ \E i \in Slots : DeleteRow(i)

SpecAll == Init /\ [][NextAll]_vars

\* One review instance and its product over the days.
NextTime ==
    \/ CreateProduct(None)
    \/ \E p \in ProductIds : DeleteProduct(p)
    \/ \E p \in ProductIds \cup {None}, v \in StoreRates : NewReview(1, p, v)
    \/ \E v \in StoreRates : SetRate(1, v)
    \/ \E p \in ProductIds \cup {None} : SetProduct(1, p)
    \/ Clean(1)
    \/ FullClean(1)
    \/ Save(1)
    \/ DeleteReview(1)
    \/ Tick

SpecTime == Init /\ [][NextTime]_vars

TypeOK ==
    /\ DOMAIN category \subseteq CategoryIds
    /\ \A c \in DOMAIN category : category[c].name \in Codes
    /\ DOMAIN brand \subseteq BrandIds
    /\ \A b \in DOMAIN brand :
          /\ brand[b].category \in CategoryIds \cup {None}
          /\ brand[b].name \in Codes
    /\ DOMAIN product \subseteq ProductIds
    /\ \A p \in DOMAIN product : product[p].brand \in BrandIds \cup {None}
    /\ DOMAIN review \subseteq Slots
    /\ \A i \in DOMAIN review :
          /\ review[i].product \in ProductIds \cup {None}
          /\ review[i].rate \in 0..MaxRate
          /\ review[i].timestamp \in 0..MaxDay
    /\ DOMAIN inst \subseteq Slots
    /\ \A i \in DOMAIN inst :
          /\ inst[i].pk \in BOOLEAN
          /\ inst[i].product \in ProductIds \cup {None}
          /\ inst[i].rate \in Rates
          /\ inst[i].timestamp \in {None} \cup (0..MaxDay)
          /\ inst[i].is_cleaned \in BOOLEAN
    /\ today \in 0..MaxDay

\* ================================================================ claims
\* The step wrote the row of slot i: it is new, or its content changed.
RowWritten(i) ==
    /\ i \in DOMAIN review'
    /\ (i \notin DOMAIN review \/ review'[i] # review[i])

\* ---------------------------------------------------------------- C1
\* C1 as stated: in every reachable state the rating of every Review row
\* of the store is in 1..5.
C1_StoredRateAlwaysInRange ==
    \A i \in DOMAIN review : review[i].rate \in 1..5

\* C1 amended: every write of a Review row stores a rating in 1..5, except
\* a save() on an instance whose is_cleaned flag is already true, which
\* stores the rating of the instance as it is.
C1_UnflaggedWritesInRange ==
    [][\A i \in Slots :
          RowWritten(i) =>
             \/ review'[i].rate \in 1..5
             \/ /\ last'.op = "Review.save"
                /\ inst[i].is_cleaned
                /\ review'[i].rate = inst[i].rate]_vars

\* A save() with the flag unset has just written the row of the instance.
C1_Witness ==
    \E i \in DOMAIN review \cap DOMAIN inst :
        /\ last = Outcome("Review.save", "none")
        /\ ~inst[i].is_cleaned
        /\ review[i].rate = inst[i].rate

\* ---------------------------------------------------------------- C2
\* The clamp of the specification: absent or below 1 gives 1, above 5
\* gives 5, anything else is kept.
C2_Clamp(r) ==
    IF r = None THEN 1 ELSE IF r < 1 THEN 1 ELSE IF r > 5 THEN 5 ELSE r

\* C2: every clean() step leaves the rating of the instance at the clamp of
\* the rating it had, which is in 1..5, with is_cleaned true.
C2_CleanClamps ==
    [][\A i \in Slots :
          Clean(i) =>
             /\ inst'[i].rate = C2_Clamp(inst[i].rate)
             /\ inst'[i].rate \in 1..5
             /\ inst'[i].is_cleaned]_vars

\* clean() has just clamped a rating above 5: the instance holds 5, flagged,
\* and nothing was written.
C2_Witness ==
    /\ last = Outcome("Review.clean", "none")
    /\ 1 \in DOMAIN inst
    /\ inst[1].rate = 5
    /\ inst[1].is_cleaned
    /\ 1 \notin DOMAIN review

\* ---------------------------------------------------------------- C3
\* C3 as stated: save() on a Review whose product exists raises nothing,
\* whatever its rating.
C3_SaveNeverFails ==
    \A i \in DOMAIN inst :
        (last.op = "Review.save" /\ inst[i].product \in DOMAIN product)
            => last.err = "none"

\* ---------------------------------------------------------------- C4
\* C4: a save() step on an instance whose is_cleaned is true leaves the
\* rating and the flag of the instance alone and hands the rating to the
\* store as it is: the row then holds exactly that rating, above 5
\* included, unless the store rejects the row (no rating, a negative
\* rating or a product that does not exist), which leaves the table alone.
C4_FlaggedSaveStoresAsIs ==
    [][\A i \in Slots :
          (Save(i) /\ inst[i].is_cleaned) =>
             /\ inst'[i].rate = inst[i].rate
             /\ inst'[i].is_cleaned
             /\ IF /\ inst[i].rate # None
                   /\ inst[i].rate >= 0
                   /\ inst[i].product \in DOMAIN product \cup {None}
                THEN /\ i \in DOMAIN review'
                     /\ review'[i].rate = inst[i].rate
                     /\ last'.err = "none"
                ELSE /\ review' = review
                     /\ last'.err = "IntegrityError"]_vars

\* A flagged instance with a rating above 5 has just been saved and the row
\* holds that rating.
C4_Witness ==
    /\ last = Outcome("Review.save", "none")
    /\ 1 \in DOMAIN inst
    /\ 1 \in DOMAIN review
    /\ inst[1].is_cleaned
    /\ inst[1].rate > 5
    /\ review[1].rate = inst[1].rate

\* ---------------------------------------------------------------- C5
\* The sum of the ratings, among those in ok, of the rows S.
RECURSIVE C5_SumRates(_, _)
C5_SumRates(S, ok) ==
    IF S = {} THEN 0
    ELSE LET i == CHOOSE x \in S : TRUE
         IN (IF review[i].rate \in ok THEN review[i].rate ELSE 0)
            + C5_SumRates(S \ {i}, ok)

\* t tenths is num / den rounded to one decimal place: no tenth is nearer
\* to num / den (two are as near when it lies half way between them).
C5_Rounded(t, num, den) ==
    LET d == 10 * num - t * den IN
    2 * d <= den /\ 2 * d >= 0 - den

\* C5 as stated: for every Product with a persisted Review,
\* get_review_percentage() is the mean of the ratings of all its persisted
\* Reviews, rounded to one decimal place.
C5_StarsAreRoundedMean ==
    \A p \in ProductIds :
        review_set(p) # {} =>
            C5_Rounded(get_review_percentage(p).tenths,
                       C5_SumRates(review_set(p), 0..MaxRate),
                       Cardinality(review_set(p)))

\* C5 amended: for every Product with a persisted Review,
\* get_review_percentage() is a float, the sum of the ratings that lie in
\* 1..5 divided by the number of all its persisted Reviews, rounded to one
\* decimal place; it is the rounded mean of all ratings when no persisted
\* rating is above 5.  26, 6, 34, 70 and 296 reviews rated 1, 2, 3, 4 and 5
\* give 4.4.  A quotient half way between two tenths goes to the side the
\* floating-point computation falls on: of 20 reviews, 19 rated 1 and one
\* rated 2 (1.05) give 1.1, and 19 rated 1 and one rated 0 (0.95) give 0.9.
C5_StarsAreValidSumOverCount ==
    /\ \A p \in ProductIds :
          review_set(p) # {} =>
             LET n == Cardinality(review_set(p)) IN
             /\ get_review_percentage(p).type = "float"
             /\ C5_Rounded(get_review_percentage(p).tenths,
                           C5_SumRates(review_set(p), 1..5), n)
             /\ (\A i \in review_set(p) : review[i].rate <= 5) =>
                   C5_Rounded(get_review_percentage(p).tenths,
                              C5_SumRates(review_set(p), 0..MaxRate), n)
    /\ Stars(432, <<26, 6, 34, 70, 296>>) = [type |-> "float", tenths |-> 44]
    /\ Stars(20, <<19, 1, 0, 0, 0>>) = [type |-> "float", tenths |-> 11]
    /\ Stars(20, <<19, 0, 0, 0, 0>>) = [type |-> "float", tenths |-> 9]

\* A product holds two reviews, rated 0 and 5: 2.5 stars.
C5_Witness ==
    \E p \in DOMAIN product :
        /\ Cardinality(review_set(p)) = 2
        /\ \E i, j \in review_set(p) :
              review[i].rate = 0 /\ review[j].rate = 5
        /\ get_review_percentage(p).tenths = 25

\* ---------------------------------------------------------------- C6
\* C6: get_review_percentage() of every product lies between 0 and 5 stars,
\* whatever ratings its rows hold.
C6_StarsWithinScale ==
    \A p \in ProductIds :
        /\ get_review_percentage(p).tenths >= 0
        /\ get_review_percentage(p).tenths <= 50

\* A product has a review whose stored rating is above 5, and one of the
\* highest valid rating.
C6_Witness ==
    \E p \in DOMAIN product :
        \E i, j \in review_set(p) : review[i].rate > 5 /\ review[j].rate = 5

\* ---------------------------------------------------------------- C7
\* C7: for a product without persisted reviews get_review_percentage() is
\* the int 0, not an error.
C7_NoReviewsGivesIntZero ==
    \A p \in ProductIds :
        review_set(p) = {} =>
            get_review_percentage(p) = [type |-> "int", tenths |-> 0]

\* A product without reviews exists next to one that has a review.
C7_Witness ==
    \E p, q \in DOMAIN product :
        /\ review_set(p) = {}
        /\ get_review_percentage(p).type = "int"
        /\ review_set(q) # {}

\* ---------------------------------------------------------------- C8
\* The number of slots 1..n whose row references product p.
RECURSIVE C8_RowsOf(_, _)
C8_RowsOf(p, n) ==
    IF n = 0 THEN 0
    ELSE C8_RowsOf(p, n - 1)
         + (IF n \in DOMAIN review /\ review[n].product = p THEN 1 ELSE 0)

\* C8: get_count_total_reviews() of a product is the number of Review rows
\* that reference it, and 0 for a product that has none or was deleted.
C8_CountIsNumberOfRows ==
    \A p \in ProductIds :
        /\ get_count_total_reviews(p) = C8_RowsOf(p, NumReviews)
        /\ (\A i \in DOMAIN review : review[i].product # p)
              => get_count_total_reviews(p) = 0
        /\ p \notin DOMAIN product => get_count_total_reviews(p) = 0

\* After a deletion, one product counts every review slot and another
\* product has been deleted.
C8_Witness ==
    /\ last.op \in {"Product.delete", "Review.delete"}
    /\ \E p \in DOMAIN product : get_count_total_reviews(p) >= 1
    /\ \E q \in 1..seq.Product : q \notin DOMAIN product

\* ---------------------------------------------------------------- C9
\* C9: a step that deletes a product removes exactly the Review rows that
\* reference it and leaves every other Review row as it was.
C9_ProductDeleteCascades ==
    [][\A p \in DOMAIN product :
          p \notin DOMAIN product' =>
             /\ DOMAIN review' =
                   {i \in DOMAIN review : review[i].product # p}
             /\ \A i \in DOMAIN review' : review'[i] = review[i]]_vars

\* A product was just deleted together with a review of its own, and a
\* review of another product (or of none) is still there.
C9_Witness ==
    /\ last.op = "Product.delete"
    /\ last.deleted >= 2
    /\ review # Empty

\* ---------------------------------------------------------------- C10
\* C10: a step that deletes a category keeps every brand, with its category
\* reference absent if it was the deleted one and unchanged otherwise; a
\* step that deletes a brand does the same to every product.
C10_SetNullKeepsChildren ==
    [][/\ \A c \in DOMAIN category \ DOMAIN category' :
             \A b \in DOMAIN brand :
                /\ b \in DOMAIN brand'
                /\ brand'[b].category =
                      IF brand[b].category = c THEN None
                      ELSE brand[b].category
       /\ \A b \in DOMAIN brand \ DOMAIN brand' :
             \A p \in DOMAIN product :
                /\ p \in DOMAIN product'
                /\ product'[p].brand =
                      IF product[p].brand = b THEN None
                      ELSE product[p].brand]_vars

\* A brand was just deleted and the product that referenced it is still
\* there without brand; a category has been deleted too and a brand without
\* category is there.
C10_Witness ==
    /\ last.op = "Brand.delete"
    /\ last.nulled >= 1
    /\ \E p \in DOMAIN product : product[p].brand = None
    /\ \E b \in DOMAIN brand : brand[b].category = None
    /\ \E c \in 1..seq.Category : c \notin DOMAIN category

\* ---------------------------------------------------------------- C11
\* The documented labels, code by code.
C11_CategoryLabel(n) ==
    CASE n = <<"p", "h">> -> "Phones"
      [] n = <<"g", "a">> -> "Gaming"
      [] n = <<"c", "o">> -> "Computing"
      [] OTHER -> "Unknown"

C11_BrandLabel(n) ==
    CASE n = <<"s", "a">> -> "SAMSUNG"
      [] n = <<"o", "p">> -> "OPPO"
      [] n = <<"k", "o">> -> "KONAMI"
      [] n = <<"s", "o">> -> "SONY"
      [] n = <<"d", "e">> -> "DELL"
      [] n = <<"h", "p">> -> "HP"
      [] OTHER -> "Unknown"

\* C11: __str__ of a stored Category or Brand returns the label paired with
\* the stored code when the code is in the enumeration of the model
\* ('ph'->'Phones', 'ga'->'Gaming', 'co'->'Computing'; 'sa'->'SAMSUNG',
\* 'op'->'OPPO', 'ko'->'KONAMI', 'so'->'SONY', 'de'->'DELL', 'hp'->'HP') and
\* 'Unknown' for every other stored code, and it changes neither the store
\* nor the instances.
C11_LabelResolverReturnsLabel ==
    [][/\ last'.op = "Category.__str__" =>
            /\ \E c \in DOMAIN category : category[c].name = last'.arg
            /\ last'.ret = C11_CategoryLabel(last'.arg)
            /\ last'.err = "none"
            /\ UNCHANGED <<category, brand, product, review, seq, inst>>
       /\ last'.op = "Brand.__str__" =>
            /\ \E b \in DOMAIN brand : brand[b].name = last'.arg
            /\ last'.ret = C11_BrandLabel(last'.arg)
            /\ last'.err = "none"
            /\ UNCHANGED <<category, brand, product, review, seq, inst>>]_vars

\* A category stored under 'hp', a code of the brands only, has been printed
\* as 'Unknown' while a brand is stored under an enumerated code.
C11_Witness ==
    /\ last.op = "Category.__str__"
    /\ last.arg = HP
    /\ last.ret = "Unknown"
    /\ \E c \in DOMAIN category : category[c].name = HP
    /\ \E b \in DOMAIN brand : Brand_str(brand[b].name) # "Unknown"

\* ---------------------------------------------------------------- C12
\* C12: full_clean() of a Category or Brand whose code is not in the
\* enumeration of the model raises ValidationError and writes nothing; save()
\* without validation of such a code of at most two characters succeeds and
\* stores the code in one row, leaving every other row as it was.
C12_ValidationRejectsSaveStores ==
    [][/\ (/\ last'.op = "Category.full_clean"
           /\ last'.arg \notin ChoiceCodes(CATEGORIES)) =>
            /\ last'.err = "ValidationError"
            /\ UNCHANGED <<category, brand, product, review, seq, inst>>
       /\ (/\ last'.op = "Brand.full_clean"
           /\ last'.arg \notin ChoiceCodes(BRANDS)) =>
            /\ last'.err = "ValidationError"
            /\ UNCHANGED <<category, brand, product, review, seq, inst>>
       /\ (/\ last'.op = "Category.save"
           /\ last'.arg \notin ChoiceCodes(CATEGORIES)
           /\ Len(last'.arg) <= 2) =>
            /\ last'.err = "none"
            /\ \E c \in DOMAIN category' :
                  /\ category'[c].name = last'.arg
                  /\ \A x \in DOMAIN category' \ {c} :
                        x \in DOMAIN category /\ category'[x] = category[x]
       /\ (/\ last'.op = "Brand.save"
           /\ last'.arg \notin ChoiceCodes(BRANDS)
           /\ Len(last'.arg) <= 2) =>
            /\ last'.err = "none"
            /\ \E b \in DOMAIN brand' :
                  /\ brand'[b].name = last'.arg
                  /\ \A x \in DOMAIN brand' \ {b} :
                        x \in DOMAIN brand /\ brand'[x] = brand[x]]_vars

\* A brand is stored under 'xz', saved without validation, and full_clean()
\* of a category under 'xz' has just raised ValidationError.
C12_Witness ==
    /\ \E b \in DOMAIN brand : brand[b].name = <<"x", "z">>
    /\ last.op = "Category.full_clean"
    /\ last.arg = <<"x", "z">>
    /\ last.err = "ValidationError"

\* ---------------------------------------------------------------- C13
\* C13 as stated: every Review of the store references an existing Product.
C13_EveryReviewHasProduct ==
    \A i \in DOMAIN review : review[i].product \in DOMAIN product

\* C13: every Review of the store references no Product or one existing
\* Product.  The reference is required by full validation only: full_clean()
\* of a Review without product raises ValidationError, while save() of a
\* Review without product and with a rating in 1..5 succeeds and stores the
\* row with an absent product reference.
C13_ProductRequiredByValidationOnly ==
    [][/\ \A i \in DOMAIN review' :
             \/ review'[i].product = None
             \/ review'[i].product \in DOMAIN product'
       /\ \A i \in DOMAIN inst :
             inst[i].product = None =>
                /\ last'.op = "Review.full_clean" =>
                      last'.err = "ValidationError"
                /\ (last'.op = "Review.save" /\ inst[i].rate \in 1..5) =>
                      /\ last'.err = "none"
                      /\ i \in DOMAIN review'
                      /\ review'[i].product = None]_vars

\* save() has just written a Review without product while a product exists.
C13_Witness ==
    /\ last.op = "Review.save"
    /\ last.err = "none"
    /\ DOMAIN product # {}
    /\ \E i \in DOMAIN review : review[i].product = None

\* ---------------------------------------------------------------- C14
\* C14: the timestamp of a Review row is the date of the day of the call
\* that wrote a row that was not there (the INSERT of Model.save(), reached
\* from save(), clean() or full_clean()); every step that keeps the row
\* (further save(), clean(), full_clean(), assignments, days passing) keeps
\* its timestamp, and the saved instance holds the timestamp of its row.
C14_TimestampSetOnceAtFirstWrite ==
    [][\A i \in Slots :
          /\ (i \in DOMAIN review /\ i \in DOMAIN review') =>
                review'[i].timestamp = review[i].timestamp
          /\ (i \notin DOMAIN review /\ i \in DOMAIN review') =>
                /\ review'[i].timestamp = today
                /\ last'.op \in {"Review.save", "Review.clean",
                                 "Review.full_clean"}
          /\ (i \in DOMAIN review' /\ i \in DOMAIN inst' /\ inst'[i].pk) =>
                inst'[i].timestamp = review'[i].timestamp]_vars

\* On a later day than the one of its timestamp, save() has just written
\* rating 6 to the row.
C14_Witness ==
    /\ last.op = "Review.save"
    /\ last.err = "none"
    /\ 1 \in DOMAIN review
    /\ 1 \in DOMAIN inst
    /\ inst[1].pk
    /\ inst[1].rate = 6
    /\ review[1].rate = 6
    /\ review[1].timestamp < today

\* ---------------------------------------------------------------- C15
\* C15: a save() step on an instance whose is_cleaned is false and whose
\* rating is below 1 or above 5 leaves the instance with rating 1 or 5 and
\* is_cleaned true and leaves the Review table as it was, whether or not the
\* validation raises; the save() step that follows on that instance, now
\* flagged and rated 1 or 5, writes the row with the clamped rating, unless
\* the product of the instance no longer exists.
C15_ClampingSaveWritesNothing ==
    [][\A i \in Slots :
          /\ (/\ Save(i)
              /\ ~inst[i].is_cleaned
              /\ inst[i].rate # None
              /\ (inst[i].rate < 1 \/ inst[i].rate > 5)) =>
                /\ inst'[i].rate = (IF inst[i].rate < 1 THEN 1 ELSE 5)
                /\ inst'[i].is_cleaned
                /\ inst'[i].pk = inst[i].pk
                /\ review' = review
                /\ last'.err \in {"none", "ValidationError"}
          /\ (/\ Save(i)
              /\ last.op = "Review.save"
              /\ inst[i].is_cleaned
              /\ inst[i].rate \in {1, 5}
              /\ inst[i].product \in DOMAIN product \cup {None}) =>
                /\ last'.err = "none"
                /\ i \in DOMAIN review'
                /\ review'[i].rate = inst[i].rate
                /\ inst'[i].rate = inst[i].rate]_vars

\* save() of a new Review rated above 5 for an existing product has just
\* returned: the instance holds 5, flagged, and there is no row.
C15_Witness ==
    /\ last = Outcome("Review.save", "none")
    /\ 1 \in DOMAIN inst
    /\ inst[1].product \in DOMAIN product
    /\ inst[1].rate = 5
    /\ inst[1].is_cleaned
    /\ ~inst[1].pk
    /\ 1 \notin DOMAIN review

\* ---------------------------------------------------------------- C16
\* C16: in every reachable state every category reference of a brand, brand
\* reference of a product and product reference of a review is absent or
\* names a row that exists.
C16_NoDanglingReference ==
    /\ \A b \in DOMAIN brand :
          brand[b].category = None \/ brand[b].category \in DOMAIN category
    /\ \A p \in DOMAIN product :
          product[p].brand = None \/ product[p].brand \in DOMAIN brand
    /\ \A i \in DOMAIN review :
          review[i].product = None \/ review[i].product \in DOMAIN product

\* A category and a brand that were referenced have been deleted, the brand
\* just now: its product is still there with no brand, that product has a
\* review, and a brand without category is there.
C16_Witness ==
    /\ last.op = "Brand.delete"
    /\ last.nulled >= 1
    /\ \E c \in 1..seq.Category : c \notin DOMAIN category
    /\ \E i \in DOMAIN review :
          /\ review[i].product \in DOMAIN product
          /\ product[review[i].product].brand = None

\* ---------------------------------------------------------------- C17
\* C17: a clean() step hands the Review to Model.save() exactly when its
\* rating on entry is in 1..5: the row of the instance, created when it was
\* not there, then holds the product and the rating of the instance, unless
\* the product of the instance does not exist, which raises IntegrityError
\* and writes nothing.  On an absent rating or one outside 1..5 the table is
\* left as it was, nothing is raised, and only the rating and the flag of
\* the instance change.
C17_CleanPersistsIffInRange ==
    [][\A i \in Slots :
          Clean(i) =>
             IF inst[i].rate \in 1..5
             THEN IF inst[i].product \in DOMAIN product \cup {None}
                  THEN /\ last'.err = "none"
                       /\ i \in DOMAIN review'
                       /\ review'[i].rate = inst[i].rate
                       /\ review'[i].product = inst[i].product
                       /\ inst'[i].pk
                       /\ inst'[i].rate = inst[i].rate
                  ELSE /\ last'.err = "IntegrityError"
                       /\ review' = review
             ELSE /\ review' = review
                  /\ last'.err = "none"
                  /\ inst'[i] = [inst[i] EXCEPT
                                    !.rate = C2_Clamp(@),
                                    !.is_cleaned = TRUE]]_vars

\* clean() has just returned on an instance rated 3: the row is there with
\* that rating and the instance has a pk.
C17_Witness ==
    /\ last = Outcome("Review.clean", "none")
    /\ 1 \in DOMAIN inst
    /\ 1 \in DOMAIN review
    /\ inst[1].pk
    /\ inst[1].is_cleaned
    /\ inst[1].rate = 3
    /\ review[1].rate = 3

====
